---- MODULE Spec2Model ----
(***************************************************************************)
(* fm-webhooks: the webhook request pipeline (index.js, the version with   *)
(* metrics) and the FileMaker result normalizer (fmClient.js, the version  *)
(* with the httpCode/body extraction).                                     *)
(*                                                                         *)
(* JavaScript is single threaded: a handler runs without interruption from *)
(* one `await` to the next.  Every action below is one such run-to-await   *)
(* segment of the POST handler; the calls in flight interleave only at     *)
(* their awaits (audit INSERT, runFmScript, audit UPDATE).                 *)
(***************************************************************************)
EXTENDS Integers, Sequences, FiniteSets, TLC

(***************************************************************************)
(* JavaScript values, as far as the code looks at them.  A value is a      *)
(* record tagged by t; typeof null is "object" (TypeOf).                   *)
(***************************************************************************)
Undefined == [t |-> "undefined"]
Null == [t |-> "null"]
Bool(b) == [t |-> "boolean", b |-> b]
\* the integer n
Num(n) == [t |-> "number", n |-> n, frac |-> FALSE, nan |-> FALSE]
\* the non-integer n + 0.5
NumHalf(n) == [t |-> "number", n |-> n, frac |-> TRUE, nan |-> FALSE]
NaN == [t |-> "number", n |-> 0, frac |-> FALSE, nan |-> TRUE]
Str(s) == [t |-> "string", s |-> s]
\* a plain object; f is the record of its own properties
Obj(f) == [t |-> "object", f |-> f]
EmptyObj == [t |-> "object", f |-> <<>>]
\* an array; e is the sequence of its elements
Arr(e) == [t |-> "array", e |-> e]

TypeOf(v) == IF v.t \in {"null", "array"} THEN "object" ELSE v.t

IsNullish(v) == v.t \in {"null", "undefined"}

\* v.p for a v that is neither null nor undefined
Get(v, p) == IF v.t = "object" /\ p \in DOMAIN v.f THEN v.f[p] ELSE Undefined

\* v?.p
OptGet(v, p) == IF IsNullish(v) THEN Undefined ELSE Get(v, p)

\* a ?? b
Coalesce(a, b) == IF IsNullish(a) THEN b ELSE a

\* truthiness of a value, as `x && ...` and `x || ...` test it
Truthy(v) ==
  CASE v.t \in {"null", "undefined"} -> FALSE
    [] v.t = "boolean" -> v.b
    [] v.t = "number" -> ~v.nan /\ (v.n # 0 \/ v.frac)
    [] v.t = "string" -> v.s # ""
    [] OTHER -> TRUE

(***************************************************************************)
(* The texts of the model and what JSON.parse and Number make of them.     *)
(* JSON.parse either returns a value or throws (ok = FALSE).               *)
(***************************************************************************)
TxtScenarioA == "{\"body\":{\"ok\":true},\"httpCode\":201}"
TxtBody99 == "{\"body\":{\"ok\":true},\"httpCode\":99}"
TxtCodeOnly == "{\"httpCode\":404}"
TxtOk == "{\"ok\":true}"
TxtPlain == "plain text"
TxtNum == "201"
TxtHalf == "200.5"
TxtQuoted == "\"hi\""
TxtNull == "null"
TxtEmpty == ""

OkTrue == Obj([ok |-> Bool(TRUE)])

JSONparse(s) ==
  CASE s = TxtScenarioA -> [ok |-> TRUE, v |-> Obj([body |-> OkTrue, httpCode |-> Num(201)])]
    [] s = TxtBody99 -> [ok |-> TRUE, v |-> Obj([body |-> OkTrue, httpCode |-> Num(99)])]
    [] s = TxtCodeOnly -> [ok |-> TRUE, v |-> Obj([httpCode |-> Num(404)])]
    [] s = TxtOk -> [ok |-> TRUE, v |-> OkTrue]
    [] s = TxtNum -> [ok |-> TRUE, v |-> Num(201)]
    [] s = TxtHalf -> [ok |-> TRUE, v |-> NumHalf(200)]
    [] s = TxtQuoted -> [ok |-> TRUE, v |-> Str("hi")]
    [] s = TxtNull -> [ok |-> TRUE, v |-> Null]
    [] OTHER -> [ok |-> FALSE, v |-> Undefined]

\* Number(s) for a string s
StringToNumber(s) ==
  CASE s = TxtNum -> Num(201)
    [] s = TxtHalf -> NumHalf(200)
    [] s = TxtEmpty -> Num(0)
    [] OTHER -> NaN

\* Number(v)
ToNumber(v) ==
  CASE v.t = "undefined" -> NaN
    [] v.t = "null" -> Num(0)
    [] v.t = "boolean" -> IF v.b THEN Num(1) ELSE Num(0)
    [] v.t = "number" -> v
    [] v.t = "string" -> StringToNumber(v.s)
    [] v.t = "array" ->
         IF Len(v.e) = 0 THEN Num(0)
         ELSE IF Len(v.e) = 1 /\ v.e[1].t = "number" THEN v.e[1]
         ELSE IF Len(v.e) = 1 /\ v.e[1].t = "string" THEN StringToNumber(v.e[1].s)
         ELSE NaN
    [] OTHER -> NaN

\* Number.isInteger(v)
IsInteger(v) == v.t = "number" /\ ~v.nan /\ ~v.frac

(***************************************************************************)
(* fmClient.js, runFmScript: what it makes of the backend's answer.        *)
(* fmResp is [status, body]: the transport status and the decoded body     *)
(* (fmResp.json()).                                                        *)
(***************************************************************************)

\* fmBody?.scriptResult?.resultParameter ?? fmBody?.scriptResult?.code ??
\* fmBody?.scriptResult ?? fmBody
ResultText(fmBody) ==
  LET sr == OptGet(fmBody, "scriptResult")
  IN Coalesce(OptGet(sr, "resultParameter"),
       Coalesce(OptGet(sr, "code"),
         Coalesce(sr, fmBody)))

\* ExtractsFields, without the test for null
ExtractsFields_NoNullCheck(resultText) == TypeOf(resultText) = "object"

\* typeof resultText === "object" && resultText !== null
ExtractsFields(resultText) == TypeOf(resultText) = "object" /\ resultText.t # "null"

\* HttpCodeOf, with the httpCode read only from an object that has a body too
HttpCodeOf_NeedsBody(resultText) ==
  IF ExtractsFields(resultText) /\ ~IsNullish(Get(resultText, "body"))
  THEN ToNumber(Get(resultText, "httpCode"))
  ELSE Undefined

\* httpCode after the extraction: Number(resultText.httpCode) for an object,
\* and the variable stays undefined otherwise
HttpCodeOf(resultText) ==
  IF ExtractsFields(resultText)
  THEN ToNumber(Get(resultText, "httpCode"))
  ELSE Undefined

\* bodyCandidate: resultText.body ?? resultText for an object, else resultText
BodyCandidate(resultText) ==
  IF ExtractsFields(resultText)
  THEN Coalesce(Get(resultText, "body"), resultText)
  ELSE resultText

\* ParseBody, without the catch: what JSON.parse left in result
ParseBody_NoCatch(bodyCandidate) ==
  IF TypeOf(bodyCandidate) = "string"
  THEN JSONparse(bodyCandidate.s).v
  ELSE bodyCandidate

\* try { JSON.parse(bodyCandidate) if it is a string } catch { bodyCandidate }
ParseBody(bodyCandidate) ==
  IF TypeOf(bodyCandidate) = "string"
  THEN IF JSONparse(bodyCandidate.s).ok THEN JSONparse(bodyCandidate.s).v
       ELSE bodyCandidate
  ELSE bodyCandidate

StatusAccepted_Through600(httpCode) ==
  IsInteger(httpCode) /\ httpCode.n >= 100 /\ httpCode.n <= 600

\* Number.isInteger(httpCode) && httpCode >= 100 && httpCode < 600
StatusAccepted(httpCode) ==
  IsInteger(httpCode) /\ httpCode.n >= 100 /\ httpCode.n < 600

FinalStatus(httpCode, transportStatus) ==
  IF StatusAccepted(httpCode) THEN httpCode.n ELSE transportStatus

\* whether runFmScript throws on the way: resultText.httpCode and
\* resultText.body are read (lines 43-44) from a resultText that is null or
\* undefined.  JSON.parse's throw is caught (ParseBody).
Throws(fmResp) ==
  ExtractsFields(ResultText(fmResp.body)) /\ IsNullish(ResultText(fmResp.body))

\* the { status, body } runFmScript returns for the answer fmResp
runFmScript(fmResp) ==
  LET resultText == ResultText(fmResp.body)
  IN [status |-> FinalStatus(HttpCodeOf(resultText), fmResp.status),
      body |-> ParseBody(BodyCandidate(resultText))]

(***************************************************************************)
(* Bounds of the model, and the inputs the environment draws from.         *)
(***************************************************************************)
\* the inbound calls of one behaviour; all of them may be in flight at once
MaxCalls == 2

Calls == 1..MaxCalls

\* endpoint = req.path.replace(/^\/+/, ""): the reserved one and another one
Endpoints == {"other-hooks", "contact-verify"}

\* crypto.randomUUID(): a token no other call has
RequestIdOf(c) == "req-" \o ToString(c)

\* elapsed times in milliseconds (process.hrtime.bigint() differences): on the
\* first bucket's boundary, and beyond the last bucket
Durations == {10, 12000}

\* what runFmScript's awaits (fetch, fmResp.json()) resolve or reject with
Resp(status, body) == [raised |-> FALSE, message |-> "", status |-> status, body |-> body]
Raise(message) == [raised |-> TRUE, message |-> message, status |-> 0, body |-> Undefined]

\* a non-2xx answer whose nested result carries its own body and httpCode
ReplyNotFound == Resp(502, Obj([scriptResult |-> Obj([resultParameter |-> Obj([body |-> OkTrue, httpCode |-> Num(404)])])]))
ReplyPlain == Resp(200, Obj([scriptResult |-> Str(TxtPlain)]))
ReplyNull == Resp(200, Null)
ReplyRefused == Raise("connect ECONNREFUSED")
ReplyBadJson == Raise("invalid json response body")

Replies == {ReplyNotFound, ReplyPlain, ReplyNull, ReplyRefused, ReplyBadJson}

\* a nullable: <<>> is null, <<x>> is x
None == <<>>
Some(x) == <<x>>

(***************************************************************************)
(* State.                                                                  *)
(***************************************************************************)
VARIABLES
  pool,      \* whether the MySQL pool was created at start-up (pool !== null)
  metrics,   \* the metrics object
  webhooks,  \* the rows of the webhooks table, by id
  calls,     \* the POST handler's locals and position, per inbound call
  normIn,    \* the backend answer of a normalization on its own (SpecNorm)
  normOut    \* what runFmScript returned for it, or that it threw: <<>> before

vars == <<pool, metrics, webhooks, calls, normIn, normOut>>

\* latencyBuckets, in milliseconds (the code holds seconds)
latencyBuckets == <<10, 50, 100, 250, 500, 1000, 2000, 5000, 10000>>

InitMetrics ==
  [requestCount |-> 0, fmCallCount |-> 0, fmErrorCount |-> 0,
   httpStatusCounts |-> <<>>,
   latencyHistogram |-> [i \in 1..Len(latencyBuckets) |-> 0]]

NoResponse == [sent |-> FALSE, status |-> 0, headers |-> <<>>, body |-> Undefined]

IdleCall ==
  [pc |-> "idle", endpoint |-> "", requestId |-> "", insertedId |-> None,
   finalStatus |-> None, finalResponse |-> Null, reply |-> None,
   errMessage |-> "", durationMs |-> None, res |-> NoResponse, trace |-> <<>>]

(***************************************************************************)
(* Metrics.                                                                *)
(***************************************************************************)
\* the first bucket i with seconds <= latencyBuckets[i], or 0 when there is none
FirstBucket(ms) ==
  IF \E i \in DOMAIN latencyBuckets : ms <= latencyBuckets[i]
  THEN CHOOSE i \in DOMAIN latencyBuckets :
         /\ ms <= latencyBuckets[i]
         /\ \A j \in DOMAIN latencyBuckets : ms <= latencyBuckets[j] => i <= j
  ELSE 0

\* observeLatency: the first matching bucket, else the last element of the array
observeLatency(m, ms) ==
  LET i == IF FirstBucket(ms) # 0 THEN FirstBucket(ms) ELSE Len(m.latencyHistogram)
  IN [m EXCEPT !.latencyHistogram[i] = @ + 1]

\* cumulative after the loop's step i: latencyHistogram[1] + ... + latencyHistogram[i]
RECURSIVE cumulative(_, _)
cumulative(h, i) == IF i = 0 THEN 0 ELSE cumulative(h, i - 1) + h[i]

\* the histogram lines of renderPromMetrics: the count printed for each
\* le="latencyBuckets[i]", for le="+Inf" and for _count
renderPromMetrics(m) ==
  LET h == m.latencyHistogram
      total == cumulative(h, Len(h))
  IN [le |-> [i \in DOMAIN latencyBuckets |-> cumulative(h, i)],
      inf |-> total,
      count |-> total]

\* CountStatus, with the count of the status set to 1 whatever it was
CountStatus_Resets(m, status) ==
  [m EXCEPT !.httpStatusCounts = (status :> 1) @@ m.httpStatusCounts]

\* metrics.httpStatusCounts[finalStatus] = (metrics.httpStatusCounts[finalStatus] || 0) + 1
CountStatus(m, status) ==
  LET h == m.httpStatusCounts
  IN [m EXCEPT !.httpStatusCounts =
        IF status \in DOMAIN h THEN [h EXCEPT ![status] = @ + 1]
        ELSE (status :> 1) @@ h]

(***************************************************************************)
(* The POST handler, a segment at a time.  A segment maps a world          *)
(* w = [call, metrics] to the world at the next await or at the end.       *)
(***************************************************************************)
Log(call, event) == [call EXCEPT !.trace = Append(@, event)]

\* { ...finalResponse, requestId }: the own properties, then requestId
SpreadWith(v, requestId) ==
  LET own == IF v.t = "array"
             THEN [k \in {ToString(i - 1) : i \in DOMAIN v.e} |->
                     v.e[CHOOSE i \in DOMAIN v.e : ToString(i - 1) = k]]
             ELSE v.f
  IN Obj(("requestId" :> Str(requestId)) @@ own)

\* BodyOut, with an object relayed as it is
BodyOut_NoMerge(finalResponse, requestId) ==
  Coalesce(finalResponse, Obj([status |-> Str("ok"), requestId |-> Str(requestId)]))

\* bodyOut of the success branch
BodyOut(finalResponse, requestId) ==
  IF Truthy(finalResponse) /\ TypeOf(finalResponse) = "object"
  THEN SpreadWith(finalResponse, requestId)
  ELSE Coalesce(finalResponse, Obj([status |-> Str("ok"), requestId |-> Str(requestId)]))

\* finalStatus || 200
StatusOut(finalStatus) ==
  IF finalStatus # None /\ finalStatus[1] # 0 THEN finalStatus[1] ELSE 200

\* res.set('X-Request-Id', requestId); res.status(finalStatus || 200).json(bodyOut)
Respond(w) ==
  LET c == w.call
  IN [w EXCEPT !.call = Log([c EXCEPT
        !.pc = "done",
        !.res = [sent |-> TRUE, status |-> StatusOut(c.finalStatus),
                 headers |-> ("X-Request-Id" :> c.requestId),
                 body |-> BodyOut(c.finalResponse, c.requestId)]], "respond")]

\* RespondError, with the catch block ending without an answer to the caller
RespondError_Silent(w) ==
  [w EXCEPT !.call.pc = "done"]

\* the catch block's response: res.status(500).json({ error: err.message })
RespondError(w) ==
  LET c == w.call
  IN [w EXCEPT !.call = Log([c EXCEPT
        !.pc = "done",
        !.res = [sent |-> TRUE, status |-> 500, headers |-> <<>>,
                 body |-> Obj([error |-> Str(c.errMessage)])]], "respond")]

\* WillUpdate, with the pool as the only condition
WillUpdate_PoolOnly(c) == pool

\* pool && insertedId
WillUpdate(c) == pool /\ c.insertedId # None

\* after the branch: the latency and status observation, then the post-update
\* (to its await) or, without one, the response
SuccessTail(w, ms) ==
  LET c == Log([w.call EXCEPT !.durationMs = Some(ms)], "observe")
      m == CountStatus(observeLatency(w.metrics, ms), c.finalStatus[1])
  IN IF WillUpdate(c)
     THEN [call |-> Log([c EXCEPT !.pc = "awaitUpdate"], "update.start"), metrics |-> m]
     ELSE Respond([call |-> c, metrics |-> m])

\* Branch, with the post-update issued before runFmScript is awaited
Branch_UpdateFirst(w, ms) ==
  IF w.call.endpoint = "other-hooks"
  THEN SuccessTail([w EXCEPT
         !.call.finalStatus = Some(200),
         !.call.finalResponse =
            Obj([status |-> Str("ok"), channel |-> Str(w.call.endpoint),
                 note |-> Str("Handled by other-hooks branch")])], ms)
  ELSE [call |-> Log(IF WillUpdate(w.call) THEN Log([w.call EXCEPT !.pc = "awaitFm"], "update.start")
                     ELSE [w.call EXCEPT !.pc = "awaitFm"], "fm.start"),
        metrics |-> [w.metrics EXCEPT !.fmCallCount = @ + 1]]

\* Branch, with the reserved endpoint sent to FileMaker like any other
Branch_AlwaysCalls(w, ms) ==
  [call |-> Log([w.call EXCEPT !.pc = "awaitFm"], "fm.start"),
   metrics |-> [w.metrics EXCEPT !.fmCallCount = @ + 1]]

\* Branch, with fmCallCount written back from a count the call keeps of
\* its own invocations
Branch_OwnCounter(w, ms) ==
  IF w.call.endpoint = "other-hooks"
  THEN SuccessTail([w EXCEPT
         !.call.finalStatus = Some(200),
         !.call.finalResponse =
            Obj([status |-> Str("ok"), channel |-> Str(w.call.endpoint),
                 note |-> Str("Handled by other-hooks branch")])], ms)
  ELSE [call |-> Log([w.call EXCEPT !.pc = "awaitFm"], "fm.start"),
        metrics |-> [w.metrics EXCEPT !.fmCallCount = 1]]

\* the try block up to runFmScript's await, or through the other-hooks branch
Branch(w, ms) ==
  IF w.call.endpoint = "other-hooks"
  THEN SuccessTail([w EXCEPT
         !.call.finalStatus = Some(200),
         !.call.finalResponse =
            Obj([status |-> Str("ok"), channel |-> Str(w.call.endpoint),
                 note |-> Str("Handled by other-hooks branch")])], ms)
  ELSE [call |-> Log([w.call EXCEPT !.pc = "awaitFm"], "fm.start"),
        metrics |-> [w.metrics EXCEPT !.fmCallCount = @ + 1]]

\* Catch, with fmErrorCount left alone
Catch_NoCount(w, message) ==
  LET c == Log([w.call EXCEPT !.errMessage = message], "catch")
  IN IF WillUpdate(c)
     THEN [call |-> Log([c EXCEPT !.pc = "awaitErrUpdate"], "update.start"), metrics |-> w.metrics]
     ELSE RespondError([call |-> c, metrics |-> w.metrics])

\* Catch, with one more attempt after the first failure
Catch_Retries(w, message) ==
  LET c == Log([w.call EXCEPT !.errMessage = message], "catch")
      m == [w.metrics EXCEPT !.fmErrorCount = @ + 1]
  IN IF Cardinality({i \in DOMAIN c.trace : c.trace[i] = "fm.start"}) < 2
     THEN [call |-> Log([c EXCEPT !.pc = "awaitFm"], "fm.start"),
           metrics |-> [m EXCEPT !.fmCallCount = @ + 1]]
     ELSE IF WillUpdate(c)
     THEN [call |-> Log([c EXCEPT !.pc = "awaitErrUpdate"], "update.start"), metrics |-> m]
     ELSE RespondError([call |-> c, metrics |-> m])

\* Catch, with the error counted twice
Catch_CountsTwice(w, message) ==
  LET c == Log([w.call EXCEPT !.errMessage = message], "catch")
      m == [w.metrics EXCEPT !.fmErrorCount = @ + 2]
  IN IF WillUpdate(c)
     THEN [call |-> Log([c EXCEPT !.pc = "awaitErrUpdate"], "update.start"), metrics |-> m]
     ELSE RespondError([call |-> c, metrics |-> m])

\* the catch block to its await, or to the response
Catch(w, message) ==
  LET c == Log([w.call EXCEPT !.errMessage = message], "catch")
      m == [w.metrics EXCEPT !.fmErrorCount = @ + 1]
  IN IF WillUpdate(c)
     THEN [call |-> Log([c EXCEPT !.pc = "awaitErrUpdate"], "update.start"), metrics |-> m]
     ELSE RespondError([call |-> c, metrics |-> m])

World(c) == [call |-> calls[c], metrics |-> metrics]

Commit(c, w) ==
  /\ calls' = [calls EXCEPT ![c] = w.call]
  /\ metrics' = w.metrics

(***************************************************************************)
(* The webhooks table.                                                     *)
(***************************************************************************)
\* INSERT INTO webhooks (source, endpoint, payload, request_id): the new row,
\* its response, http_code and duration NULL.  updates counts the UPDATEs
\* that have written the row.
NewRow(c) ==
  [id |-> Len(webhooks) + 1, request_id |-> c.requestId, endpoint |-> c.endpoint,
   response |-> None, http_code |-> None, duration |-> None, updates |-> 0]

\* UPDATE webhooks SET response = ?, http_code = ?, duration = ? WHERE id = ?
\* with [JSON.stringify(finalResponse ?? null), finalStatus ?? null, durationMs, insertedId]
UpdateRow(c) ==
  [webhooks EXCEPT ![c.insertedId[1]] =
     [@ EXCEPT !.response = Some(Coalesce(c.finalResponse, Null)),
               !.http_code = c.finalStatus,
               !.duration = c.durationMs,
               !.updates = @ + 1]]

\* UpdateRowError, writing the response without the status
UpdateRowError_NoStatus(c) ==
  [webhooks EXCEPT ![c.insertedId[1]] =
     [@ EXCEPT !.response = Some(Obj([error |-> Str(c.errMessage)])),
               !.updates = @ + 1]]

\* UPDATE webhooks SET response = ?, http_code = ? WHERE id = ?
\* with [JSON.stringify({ error: err.message }), 500, insertedId]
UpdateRowError(c) ==
  [webhooks EXCEPT ![c.insertedId[1]] =
     [@ EXCEPT !.response = Some(Obj([error |-> Str(c.errMessage)])),
               !.http_code = Some(500),
               !.updates = @ + 1]]

(***************************************************************************)
(* Actions: the handler from one await to the next.                        *)
(***************************************************************************)
\* the request arrives: locals, requestCount++, and on to the pre-insert's
\* await or, without a pool, into the try block
Admit(c, ep, ms) ==
  /\ calls[c].pc = "idle"
  /\ \A b \in Calls : b < c => calls[b].pc # "idle"
  /\ LET c0 == Log([IdleCall EXCEPT !.endpoint = ep, !.requestId = RequestIdOf(c)], "admit")
         w0 == [call |-> c0, metrics |-> [metrics EXCEPT !.requestCount = @ + 1]]
     IN IF pool
        THEN Commit(c, [w0 EXCEPT !.call = Log([@ EXCEPT !.pc = "awaitInsert"], "insert.start")])
        ELSE Commit(c, Branch(w0, ms))
  /\ UNCHANGED <<pool, webhooks, normIn, normOut>>

\* InsertReturn, with a rejected pre-insert left to the handler's catch block
InsertReturn_Fatal(c, ok, ms) ==
  /\ calls[c].pc = "awaitInsert"
  /\ LET c1 == IF ok
               THEN Log([calls[c] EXCEPT !.insertedId = Some(Len(webhooks) + 1)], "insert.ok")
               ELSE Log(calls[c], "insert.fail")
     IN /\ IF ok THEN Commit(c, Branch([call |-> c1, metrics |-> metrics], ms))
           ELSE Commit(c, Catch([call |-> c1, metrics |-> metrics], "pre-insert failed"))
        /\ webhooks' = IF ok THEN Append(webhooks, NewRow(calls[c])) ELSE webhooks
  /\ UNCHANGED <<pool, normIn, normOut>>

\* the pre-insert's await resolves (ok) or rejects; a rejection is logged and
\* insertedId stays null
InsertReturn(c, ok, ms) ==
  /\ calls[c].pc = "awaitInsert"
  /\ LET c1 == IF ok
               THEN Log([calls[c] EXCEPT !.insertedId = Some(Len(webhooks) + 1)], "insert.ok")
               ELSE Log(calls[c], "insert.fail")
     IN /\ Commit(c, Branch([call |-> c1, metrics |-> metrics], ms))
        /\ webhooks' = IF ok THEN Append(webhooks, NewRow(calls[c])) ELSE webhooks
  /\ UNCHANGED <<pool, normIn, normOut>>

\* FmReturn, with a result that depends on the invocations before it
FmReturn_Stateful(c, reply, ms) ==
  /\ calls[c].pc = "awaitFm"
  /\ ~reply.raised
  /\ LET fm0 == runFmScript([status |-> reply.status, body |-> reply.body])
         fm == IF metrics.fmCallCount > 1 THEN [fm0 EXCEPT !.body = Null] ELSE fm0
         c1 == Log([calls[c] EXCEPT !.reply = Some(reply),
                                    !.finalStatus = Some(fm.status),
                                    !.finalResponse = fm.body], "fm.return")
     IN Commit(c, SuccessTail([call |-> c1, metrics |-> metrics], ms))
  /\ UNCHANGED <<pool, webhooks, normIn, normOut>>

\* FmReturn, with an answer outside 2xx treated as a failure
FmReturn_ThrowsOnNon2xx(c, reply, ms) ==
  /\ calls[c].pc = "awaitFm"
  /\ ~reply.raised
  /\ LET fm == runFmScript([status |-> reply.status, body |-> reply.body])
         c1 == Log([calls[c] EXCEPT !.reply = Some(reply),
                                    !.finalStatus = Some(fm.status),
                                    !.finalResponse = fm.body], "fm.return")
     IN IF reply.status \in 200..299
        THEN Commit(c, SuccessTail([call |-> c1, metrics |-> metrics], ms))
        ELSE Commit(c, Catch([call |-> Log([calls[c] EXCEPT !.reply = Some(reply)], "fm.raise"),
                              metrics |-> metrics], "HTTP error"))
  /\ UNCHANGED <<pool, webhooks, normIn, normOut>>

\* runFmScript returns { status, body } for the backend's answer
FmReturn(c, reply, ms) ==
  /\ calls[c].pc = "awaitFm"
  /\ ~reply.raised
  /\ LET fm == runFmScript([status |-> reply.status, body |-> reply.body])
         c1 == Log([calls[c] EXCEPT !.reply = Some(reply),
                                    !.finalStatus = Some(fm.status),
                                    !.finalResponse = fm.body], "fm.return")
     IN Commit(c, SuccessTail([call |-> c1, metrics |-> metrics], ms))
  /\ UNCHANGED <<pool, webhooks, normIn, normOut>>

\* runFmScript throws: fetch rejects, or fmResp.json() does
FmRaise(c, reply) ==
  /\ calls[c].pc = "awaitFm"
  /\ reply.raised
  /\ LET c1 == Log([calls[c] EXCEPT !.reply = Some(reply)], "fm.raise")
     IN Commit(c, Catch([call |-> c1, metrics |-> metrics], reply.message))
  /\ UNCHANGED <<pool, webhooks, normIn, normOut>>

\* UpdateReturn, with the response after the post-update throwing into the
\* catch block
UpdateReturn_ThenFault(c, ok) ==
  /\ calls[c].pc = "awaitUpdate"
  /\ LET c1 == Log(calls[c], IF ok THEN "update.ok" ELSE "update.fail")
     IN Commit(c, Catch([call |-> c1, metrics |-> metrics], "response failed"))
  /\ webhooks' = IF ok THEN UpdateRow(calls[c]) ELSE webhooks
  /\ UNCHANGED <<pool, normIn, normOut>>

\* the success branch's post-update resolves (ok) or rejects (logged)
UpdateReturn(c, ok) ==
  /\ calls[c].pc = "awaitUpdate"
  /\ LET c1 == Log(calls[c], IF ok THEN "update.ok" ELSE "update.fail")
     IN Commit(c, Respond([call |-> c1, metrics |-> metrics]))
  /\ webhooks' = IF ok THEN UpdateRow(calls[c]) ELSE webhooks
  /\ UNCHANGED <<pool, normIn, normOut>>

\* the catch block's post-update resolves (ok) or rejects (ignored)
ErrUpdateReturn(c, ok) ==
  /\ calls[c].pc = "awaitErrUpdate"
  /\ LET c1 == Log(calls[c], IF ok THEN "update.ok" ELSE "update.fail")
     IN Commit(c, RespondError([call |-> c1, metrics |-> metrics]))
  /\ webhooks' = IF ok THEN UpdateRowError(calls[c]) ELSE webhooks
  /\ UNCHANGED <<pool, normIn, normOut>>

Init ==
  /\ pool \in BOOLEAN
  /\ metrics = InitMetrics
  /\ webhooks = <<>>
  /\ calls = [c \in Calls |-> IdleCall]
  /\ normIn = None
  /\ normOut = None

Next ==
  \E c \in Calls :
    \/ \E ep \in Endpoints, ms \in Durations : Admit(c, ep, ms)
    \/ \E ok \in BOOLEAN, ms \in Durations : InsertReturn(c, ok, ms)
    \/ \E reply \in Replies, ms \in Durations : FmReturn(c, reply, ms)
    \/ \E reply \in Replies : FmRaise(c, reply)
    \/ \E ok \in BOOLEAN : UpdateReturn(c, ok)
    \/ \E ok \in BOOLEAN : ErrUpdateReturn(c, ok)

Spec == Init /\ [][Next]_vars

\* For termination only the shape of an answer counts, returned or thrown, and
\* not how long it took: one answer of each kind and one duration.
LiveReplies == {ReplyNotFound, ReplyRefused}

LiveDurations == {10}

\* what a call is waiting for comes back: the INSERT, runFmScript or an UPDATE
\* resolves or rejects
Returns(c) ==
  \/ \E ok \in BOOLEAN, ms \in LiveDurations : InsertReturn(c, ok, ms)
  \/ \E reply \in LiveReplies : FmRaise(c, reply)
  \/ \E reply \in LiveReplies, ms \in LiveDurations : FmReturn(c, reply, ms)
  \/ \E ok \in BOOLEAN : UpdateReturn(c, ok)
  \/ \E ok \in BOOLEAN : ErrUpdateReturn(c, ok)

NextLive ==
  \E c \in Calls :
    \/ \E ep \in Endpoints, ms \in LiveDurations : Admit(c, ep, ms)
    \/ Returns(c)

\* the handler, with every awaited promise settling in the end
SpecLive == Init /\ [][NextLive]_vars /\ \A c \in Calls : WF_vars(Returns(c))

(***************************************************************************)
(* runFmScript on its own: one backend answer, drawn from the shapes the   *)
(* fallback chain tells apart, and the { status, body } it returns.        *)
(***************************************************************************)
\* values of an httpCode property
HttpCodes ==
  {Num(99), Num(100), Num(201), Num(599), Num(600), NumHalf(200), Num(0),
   Str(TxtNum), Str(TxtHalf), Str("abc"), Str(TxtEmpty), Null, Bool(TRUE),
   Arr(<<Num(204)>>), EmptyObj}

\* values of a body property
Bodies == {OkTrue, Str(TxtOk), Str(TxtPlain), Null}

\* the values the descent can end in
Descended ==
  {Null, Num(201), Bool(TRUE), EmptyObj, OkTrue, Arr(<<>>), Arr(<<Num(1)>>),
   Str(TxtPlain), Str(TxtScenarioA), Str(TxtBody99), Str(TxtCodeOnly), Str(TxtOk),
   Str(TxtNum), Str(TxtQuoted), Str(TxtNull), Str(TxtEmpty)}
  \cup {Obj([body |-> b, httpCode |-> h]) : b \in Bodies, h \in HttpCodes}
  \cup {Obj([httpCode |-> h]) : h \in HttpCodes}
  \cup {Obj([body |-> b]) : b \in Bodies}

\* the decoded bodies: the value bare, and nested one and two levels
FmBodies ==
  Descended
  \cup {Obj([scriptResult |-> d]) : d \in Descended}
  \cup {Obj([scriptResult |-> Obj([resultParameter |-> d])]) : d \in Descended}
  \cup {Obj([scriptResult |-> Obj([code |-> d])]) : d \in Descended}
  \cup {Obj([scriptResult |-> Obj([resultParameter |-> Null, code |-> d])]) : d \in Descended}

TransportStatuses == {200, 404, 500}

InitNorm ==
  /\ pool = FALSE
  /\ metrics = InitMetrics
  /\ webhooks = <<>>
  /\ calls = [c \in Calls |-> IdleCall]
  /\ normIn \in {[status |-> st, body |-> b] : st \in TransportStatuses, b \in FmBodies}
  /\ normOut = None

\* runFmScript from fmResp.json()'s value to its return, or to its throw
NormReturn ==
  /\ normOut = None
  /\ normOut' = Some(IF Throws(normIn) THEN [threw |-> "TypeError"] ELSE runFmScript(normIn))
  /\ UNCHANGED <<pool, metrics, webhooks, calls, normIn>>

NextNorm == NormReturn

SpecNorm == InitNorm /\ [][NextNorm]_vars

(***************************************************************************)
(* Properties.                                                             *)
(***************************************************************************)
Has(tr, e) == \E i \in DOMAIN tr : tr[i] = e

Count(tr, e) == Cardinality({i \in DOMAIN tr : tr[i] = e})

\* the position of the first e in tr, 0 when there is none
Pos(tr, e) == IF Has(tr, e) THEN CHOOSE i \in DOMAIN tr : tr[i] = e /\ \A j \in 1..(i - 1) : tr[j] # e ELSE 0

Admitted(c) == calls[c].pc # "idle"

Done(c) == calls[c].pc = "done"

Reserved(c) == calls[c].endpoint = "other-hooks"

\* the call entered the catch block (FAILED)
Failed(c) == Has(calls[c].trace, "catch")

\* C1: a call to an endpoint other than the reserved one makes exactly one
\* outbound invocation attempt: never a second one, and one by the time the
\* pre-insert is over, whatever becomes of the attempt.
C1_ExactlyOneInvocation ==
  \A c \in Calls :
    Admitted(c) /\ ~Reserved(c) =>
      /\ Count(calls[c].trace, "fm.start") <= 1
      /\ calls[c].pc # "awaitInsert" => Count(calls[c].trace, "fm.start") = 1

C1_Witness ==
  \E c \in Calls :
    /\ Done(c) /\ ~Reserved(c) /\ Failed(c)
    /\ Count(calls[c].trace, "fm.start") = 1

\* C2: every response sent, completed or failed, carries the X-Request-Id
\* header, with the requestId of the call, which is the request_id of the row
\* its pre-insert wrote.
C2_ResponseCarriesRequestId ==
  \A c \in Calls :
    calls[c].res.sent =>
      /\ "X-Request-Id" \in DOMAIN calls[c].res.headers
      /\ calls[c].res.headers["X-Request-Id"] = calls[c].requestId
      /\ calls[c].insertedId # None =>
           webhooks[calls[c].insertedId[1]].request_id = calls[c].requestId

\* the end of the pre-insert and of the invocation in a trace, 0 when not there
InsertEnd(tr) == IF Has(tr, "insert.ok") THEN Pos(tr, "insert.ok") ELSE Pos(tr, "insert.fail")

FmEnd(tr) == IF Has(tr, "fm.return") THEN Pos(tr, "fm.return") ELSE Pos(tr, "fm.raise")

\* C3: with a store, the pre-insert has resolved or rejected before the
\* invocation starts; and the invocation has returned or thrown before a
\* post-update of the call is issued.
C3_SideEffectOrder ==
  \A c \in Calls :
    LET tr == calls[c].trace
    IN /\ pool /\ Has(tr, "fm.start") =>
            /\ Has(tr, "insert.start")
            /\ Pos(tr, "insert.start") < InsertEnd(tr)
            /\ InsertEnd(tr) < Pos(tr, "fm.start")
       /\ Has(tr, "update.start") /\ ~Reserved(c) =>
            /\ Has(tr, "fm.start")
            /\ Pos(tr, "fm.start") < FmEnd(tr)
            /\ FmEnd(tr) < Pos(tr, "update.start")

C3_Witness ==
  \E c \in Calls :
    /\ Done(c) /\ ~Reserved(c)
    /\ Has(calls[c].trace, "insert.ok")
    /\ Has(calls[c].trace, "fm.return")
    /\ Has(calls[c].trace, "update.ok")

RECURSIVE SumSeq(_)
SumSeq(q) == IF q = <<>> THEN 0 ELSE q[1] + SumSeq(Tail(q))

\* the call reached COMPLETED (the branch is behind it) or FAILED
Outcome(c) == Has(calls[c].trace, "observe") \/ Failed(c)

\* C4: a call is observed in the latency histogram exactly once, completed or
\* failed, so that the bucket counts add up to the calls with an outcome.
C4_LatencyObservedOncePerCall ==
  /\ \A c \in Calls :
       (Done(c) \/ Failed(c)) => Count(calls[c].trace, "observe") = 1
  /\ SumSeq(metrics.latencyHistogram) = Cardinality({c \in Calls : Outcome(c) \/ Done(c)})

C5_Counts ==
  /\ metrics.requestCount = Cardinality({c \in Calls : Admitted(c)})
  /\ metrics.fmErrorCount = Cardinality({c \in Calls : Failed(c)})

C5_Monotone ==
  /\ metrics'.requestCount >= metrics.requestCount
  /\ metrics'.fmErrorCount >= metrics.fmErrorCount

\* C5: requestCount is the number of calls admitted and fmErrorCount the
\* number of them that failed, in every state, and neither ever decreases.
C5_CountersMatch == []C5_Counts /\ [][C5_Monotone]_vars

C5_Witness ==
  /\ metrics.requestCount = 2
  /\ metrics.fmErrorCount = 1
  /\ \A c \in Calls : Admitted(c) => Done(c)

\* a body without its requestId property
WithoutRequestId(v) ==
  IF v.t = "object"
  THEN Obj([k \in DOMAIN v.f \ {"requestId"} |-> v.f[k]])
  ELSE v

\* what the caller sees of a call, the value of the requestId apart
Seen(c) == [status |-> calls[c].res.status, body |-> WithoutRequestId(calls[c].res.body)]

\* the status a call's endpoint and backend answer stand for, the store apart
StatusFor(ep, reply) ==
  IF ep = "other-hooks" THEN 200
  ELSE IF reply[1].raised THEN 500
  ELSE runFmScript([status |-> reply[1].status, body |-> reply[1].body]).status

\* the body, its requestId apart, that a call's endpoint and backend answer
\* stand for, the store apart
BodyFor(ep, reply) ==
  IF ep = "other-hooks"
  THEN Obj([status |-> Str("ok"), channel |-> Str("other-hooks"),
            note |-> Str("Handled by other-hooks branch")])
  ELSE IF reply[1].raised THEN Obj([error |-> Str(reply[1].message)])
  ELSE LET b == runFmScript([status |-> reply[1].status, body |-> reply[1].body]).body
       IN IF b.t = "object" THEN WithoutRequestId(b)
          ELSE IF IsNullish(b) THEN Obj([status |-> Str("ok")])
          ELSE b

\* C6: the store does not show in the response.  Two calls to the same
\* endpoint with the same backend answer get the same status and, the
\* requestId apart, the same body, whatever their pre-inserts and
\* post-updates did; with or without a pool the status and the body are the
\* ones the endpoint and the answer stand for; and a rejected pre-insert is
\* followed by the invocation.
C6_StoreInvisible ==
  /\ \A c \in Calls, d \in Calls :
       /\ Done(c) /\ Done(d)
       /\ calls[c].endpoint = calls[d].endpoint
       /\ calls[c].reply = calls[d].reply
       => Seen(c) = Seen(d)
  /\ \A c \in Calls :
       Done(c) =>
         /\ calls[c].res.status = StatusFor(calls[c].endpoint, calls[c].reply)
         /\ Seen(c).body = BodyFor(calls[c].endpoint, calls[c].reply)
  /\ \A c \in Calls :
       Has(calls[c].trace, "insert.fail") /\ ~Reserved(c) => Has(calls[c].trace, "fm.start")

C6_Witness ==
  \E c \in Calls, d \in Calls :
    /\ Done(c) /\ Done(d) /\ ~Reserved(c)
    /\ calls[c].endpoint = calls[d].endpoint
    /\ calls[c].reply = calls[d].reply
    /\ ~calls[c].reply[1].raised
    /\ Has(calls[c].trace, "insert.fail")
    /\ Has(calls[d].trace, "update.fail")

\* C7: when the invocation throws, the caller gets 500 and { error: message }
\* with the message thrown; and with a row inserted, the post-update is issued,
\* and the row it wrote holds 500 and the same error body.
C7_TransportFailure ==
  \A c \in Calls :
    Done(c) /\ Has(calls[c].trace, "fm.raise") =>
      /\ calls[c].res.status = 500
      /\ calls[c].res.body = Obj([error |-> Str(calls[c].reply[1].message)])
      /\ calls[c].insertedId # None =>
           /\ Count(calls[c].trace, "update.start") = 1
           /\ Has(calls[c].trace, "update.ok") =>
                LET row == webhooks[calls[c].insertedId[1]]
                IN /\ row.http_code = Some(500)
                   /\ row.response = Some(Obj([error |-> Str(calls[c].reply[1].message)]))

C7_Witness ==
  \E c \in Calls :
    /\ Done(c)
    /\ Has(calls[c].trace, "fm.raise")
    /\ Has(calls[c].trace, "update.ok")
    /\ webhooks[calls[c].insertedId[1]].http_code = Some(500)

\* C8: a call to other-hooks makes no invocation and does not count in
\* fmCallCount, and its response is 200 with status "ok", channel
\* "other-hooks" and the call's requestId in the body.
C8_ReservedEndpoint ==
  /\ \A c \in Calls :
       Admitted(c) /\ Reserved(c) =>
         /\ ~Has(calls[c].trace, "fm.start")
         /\ Done(c) =>
              /\ calls[c].res.status = 200
              /\ calls[c].res.body.t = "object"
              /\ {"status", "channel", "requestId"} \subseteq DOMAIN calls[c].res.body.f
              /\ calls[c].res.body.f["status"] = Str("ok")
              /\ calls[c].res.body.f["channel"] = Str("other-hooks")
              /\ calls[c].res.body.f["requestId"] = Str(calls[c].requestId)
  /\ metrics.fmCallCount =
       Cardinality({c \in Calls : Admitted(c) /\ ~Reserved(c) /\ calls[c].pc # "awaitInsert"})

C8_Witness ==
  \E c \in Calls, d \in Calls :
    /\ Done(c) /\ Reserved(c) /\ calls[c].res.status = 200
    /\ Done(d) /\ ~Reserved(d)
    /\ metrics.fmCallCount = 1

\* an object with a body and an httpCode that is an integer from 100 to 599
IsOutcomeObject(v) ==
  /\ v.t = "object"
  /\ {"body", "httpCode"} \subseteq DOMAIN v.f
  /\ v.f["httpCode"].t = "number"
  /\ ~v.f["httpCode"].nan /\ ~v.f["httpCode"].frac
  /\ v.f["httpCode"].n \in 100..599

\* C9: when the descent ends in a string that parses to an object with a body
\* and an httpCode that is an integer from 100 to 599, runFmScript returns
\* that httpCode and that body.
C9_StringifiedOutcomeExtracted ==
  normOut # None =>
    LET d == ResultText(normIn.body)
    IN d.t = "string" /\ JSONparse(d.s).ok /\ IsOutcomeObject(JSONparse(d.s).v) =>
         normOut[1] = [status |-> JSONparse(d.s).v.f["httpCode"].n,
                       body |-> JSONparse(d.s).v.f["body"]]

\* the integer from 100 to 599 a value stands for after Number(), if it does
ValidStatus(v) ==
  LET n == ToNumber(v)
  IN n.t = "number" /\ ~n.nan /\ ~n.frac /\ n.n \in 100..599

\* C10: the status returned is the httpCode of the descended object when that
\* is, as a number, an integer from 100 to 599, and the transport status in
\* every other case: 99, 600, a non-integer, a non-numeric string, no httpCode.
C10_StatusValidated ==
  normOut # None =>
    LET d == ResultText(normIn.body)
        has == d.t = "object" /\ "httpCode" \in DOMAIN d.f
    IN IF has /\ ValidStatus(d.f["httpCode"])
       THEN normOut[1].status = ToNumber(d.f["httpCode"]).n
       ELSE normOut[1].status = normIn.status

C10_Witness ==
  /\ normOut # None
  /\ ResultText(normIn.body).t = "object"
  /\ "httpCode" \in DOMAIN ResultText(normIn.body).f
  /\ ResultText(normIn.body).f["httpCode"] = Num(600)
  /\ normIn.status = 404
  /\ normOut[1].status = 404

\* the descended value's body when it is an object that has one, else the
\* descended value
CandidateBody(d) ==
  IF d.t = "object" /\ "body" \in DOMAIN d.f /\ d.f["body"].t # "null"
  THEN d.f["body"]
  ELSE d

\* a string that JSON.parse does not take
IsPlainString(v) == v.t = "string" /\ ~JSONparse(v.s).ok

\* a value after the parse step: what a string parses to, else the value
Parsed(v) == IF v.t = "string" /\ JSONparse(v.s).ok THEN JSONparse(v.s).v ELSE v

\* C11 as claimed: a candidate body that is a string and does not parse is
\* returned as it is, with the transport status.
C11_PlainStringWithTransportStatus ==
  normOut # None =>
    LET cand == CandidateBody(ResultText(normIn.body))
    IN IsPlainString(cand) =>
         /\ DOMAIN normOut[1] = {"status", "body"}
         /\ normOut[1].body = cand
         /\ normOut[1].status = normIn.status

\* C11: a candidate body that is a string and does not parse is returned as
\* it is and nothing is thrown; the status is the transport status, unless the
\* string is the body of a descended object whose httpCode is valid, and then
\* it is that httpCode.
C11_PlainStringKept ==
  normOut # None =>
    LET d == ResultText(normIn.body)
        cand == CandidateBody(d)
    IN IsPlainString(cand) =>
         /\ DOMAIN normOut[1] = {"status", "body"}
         /\ normOut[1].body = cand
         /\ normOut[1].status =
              IF d.t = "object" /\ "httpCode" \in DOMAIN d.f /\ ValidStatus(d.f["httpCode"])
              THEN ToNumber(d.f["httpCode"]).n
              ELSE normIn.status

\* the spec's Scenario B
C11_Witness ==
  /\ normIn = [status |-> 200, body |-> Obj([scriptResult |-> Str(TxtPlain)])]
  /\ normOut = Some([status |-> 200, body |-> Str(TxtPlain)])

JsTags == {"null", "boolean", "number", "string", "object", "array"}

\* C12: for every decoded body and transport status runFmScript returns a
\* status and a body (a value or null), and does not throw.
C12_NormalizerTotal ==
  normOut # None =>
    /\ DOMAIN normOut[1] = {"status", "body"}
    /\ normOut[1].status \in 100..599
    /\ normOut[1].body.t \in JsTags

C12_Witness ==
  /\ normOut # None
  /\ normIn.body \in {Null, Obj([scriptResult |-> Null])}
  /\ normOut[1].body = normIn.body

\* C20 as claimed: unless the descended value is an object with a body and a
\* numeric-looking httpCode, the status is the transport status and the body
\* is the whole descended value (parsed when it is a string that parses).
C20_CandidateNeedsBoth ==
  normOut # None =>
    LET d == ResultText(normIn.body)
        both == /\ d.t = "object"
                /\ {"body", "httpCode"} \subseteq DOMAIN d.f
                /\ ~ToNumber(d.f["httpCode"]).nan
    IN ~both =>
         /\ normOut[1].status = normIn.status
         /\ normOut[1].body = Parsed(d)

\* C20: httpCode and body are taken from a descended object one by one.  The
\* status is its httpCode when that is valid, with or without a body, else the
\* transport status; the candidate body is its body when it has one that is
\* not null, with or without an httpCode, else the whole descended value.
C20_FieldsTakenSeparately ==
  normOut # None =>
    LET d == ResultText(normIn.body)
    IN /\ normOut[1].status =
            IF d.t = "object" /\ "httpCode" \in DOMAIN d.f /\ ValidStatus(d.f["httpCode"])
            THEN ToNumber(d.f["httpCode"]).n
            ELSE normIn.status
       /\ normOut[1].body = Parsed(CandidateBody(d))

C20_Witness ==
  /\ normOut # None
  /\ ResultText(normIn.body) = Obj([httpCode |-> Num(201)])
  /\ normIn.status = 404
  /\ normOut[1] = [status |-> 201, body |-> Obj([httpCode |-> Num(201)])]

\* the calls runFmScript has returned to
Returned(c) == Has(calls[c].trace, "fm.return")

IsNon2xxAnswer(reply) ==
  reply # None /\ ~reply[1].raised /\ reply[1].status \notin 200..299

\* C15: a backend answer with a transport status outside 2xx and a decoded
\* body is not a failure: runFmScript returns, the call does not enter the
\* catch block, fmErrorCount counts only the calls that did, and the caller
\* gets the normalized status and body, not the catch block's 500.
C15_Non2xxIsNotFailure ==
  /\ metrics.fmErrorCount = Cardinality({c \in Calls : Failed(c)})
  /\ \A c \in Calls :
       IsNon2xxAnswer(calls[c].reply) =>
         LET fm == runFmScript([status |-> calls[c].reply[1].status,
                                body |-> calls[c].reply[1].body])
         IN /\ Returned(c) /\ ~Failed(c)
            /\ calls[c].finalStatus = Some(fm.status)
            /\ calls[c].finalResponse = fm.body
            /\ Done(c) => /\ calls[c].res.status = fm.status
                          /\ Seen(c).body = WithoutRequestId(fm.body)
                          /\ "error" \notin DOMAIN calls[c].res.body.f

C15_Witness ==
  /\ Done(1)
  /\ calls[1].reply = Some(ReplyNotFound)
  /\ ReplyNotFound.status = 502
  /\ calls[1].res.status = 404
  /\ calls[1].res.body = Obj([ok |-> Bool(TRUE), requestId |-> Str(calls[1].requestId)])
  /\ metrics.fmErrorCount = 0

\* the call ended on the success branch
Completed(c) == Done(c) /\ ~Failed(c)

\* C16: a call that ends on the success branch answers with the final status;
\* when the final body is an object (not an array) the answer's body is that
\* object with requestId set and every other field as it was; when it is null
\* the answer's body is {status: "ok", requestId}.
C16_CompletedResponse ==
  \A c \in Calls :
    Completed(c) =>
      LET fr == calls[c].finalResponse
          out == calls[c].res.body
          id == Str(calls[c].requestId)
      IN /\ calls[c].res.status = calls[c].finalStatus[1]
         /\ fr.t = "object" =>
              /\ out.t = "object"
              /\ DOMAIN out.f = DOMAIN fr.f \cup {"requestId"}
              /\ out.f["requestId"] = id
              /\ \A k \in DOMAIN fr.f \ {"requestId"} : out.f[k] = fr.f[k]
         /\ IsNullish(fr) => out = Obj([status |-> Str("ok"), requestId |-> id])

\* one call relayed an object, the other an empty body
C16_Witness ==
  /\ Completed(1) /\ Completed(2)
  /\ calls[1].finalResponse = OkTrue
  /\ calls[1].res.body = Obj([ok |-> Bool(TRUE), requestId |-> Str("req-1")])
  /\ calls[2].finalResponse = Null
  /\ calls[2].res.body = Obj([status |-> Str("ok"), requestId |-> Str("req-2")])
  /\ calls[2].res.status = 200

AllDone == \A c \in Calls : Done(c)

\* C17: when all the calls have ended, however their segments interleaved,
\* requestCount is the number of calls, fmCallCount the number of
\* invocations started and fmErrorCount the number of calls that ended in
\* the catch block.
C17_NoLostCount ==
  AllDone =>
    /\ metrics.requestCount = Cardinality(Calls)
    /\ metrics.fmCallCount = Cardinality({c \in Calls : Has(calls[c].trace, "fm.start")})
    /\ metrics.fmErrorCount = Cardinality({c \in Calls : Failed(c)})

\* the two calls overlapped: the later call's insert came back first, and
\* both were waiting for FileMaker at the same time
C17_Witness ==
  /\ AllDone
  /\ calls[1].insertedId = Some(2) /\ calls[2].insertedId = Some(1)
  /\ metrics.requestCount = 2
  /\ metrics.fmCallCount = 2
  /\ metrics.fmErrorCount = 1

\* the calls whose latency has been observed, and took at most ms
ObservedWithin(ms) ==
  {c \in Calls : Has(calls[c].trace, "observe") /\ calls[c].durationMs[1] <= ms}

\* the calls whose latency has been observed
Observed == {c \in Calls : Has(calls[c].trace, "observe")}

\* C18 as claimed: the count rendered for each threshold is the number of
\* observations at or under it, and an observation over the largest threshold
\* is counted under +Inf only.
C18_CumulativeBuckets ==
  LET r == renderPromMetrics(metrics)
      last == latencyBuckets[Len(latencyBuckets)]
  IN /\ \A i \in DOMAIN latencyBuckets :
          r.le[i] = Cardinality(ObservedWithin(latencyBuckets[i]))
     /\ r.inf = Cardinality(Observed)
     /\ r.inf - r.le[Len(latencyBuckets)] = Cardinality(Observed \ ObservedWithin(last))

\* C19 as claimed: once a call's post-update has succeeded, its row has a
\* duration exactly when runFmScript was called for it.
C19_DurationIffInvoked ==
  \A c \in Calls :
    Has(calls[c].trace, "update.ok") =>
      (webhooks[calls[c].insertedId[1]].duration # None <=> Has(calls[c].trace, "fm.start"))

\* C23: at all times fmErrorCount <= fmCallCount <= requestCount.
C23_CountersOrdered ==
  /\ metrics.fmErrorCount <= metrics.fmCallCount
  /\ metrics.fmCallCount <= metrics.requestCount

\* one call was sent to FileMaker and failed, the other was not sent
C23_Witness ==
  /\ metrics.fmErrorCount = 1
  /\ metrics.fmCallCount = 1
  /\ metrics.requestCount = 2
  /\ Failed(1) /\ Done(2) /\ Reserved(2)

\* the rows of the table that carry the call's request_id
RowsOf(c) == {i \in DOMAIN webhooks : webhooks[i].request_id = RequestIdOf(c)}

\* C24: an UPDATE is issued, on the success branch or in the catch block,
\* only for a call whose INSERT came back with a row id; without a pool, or
\* when the INSERT failed, the call issues no UPDATE and no row holds its
\* outcome.
C24_UpdateNeedsInsertedRow ==
  \A c \in Calls :
    LET tr == calls[c].trace
    IN /\ Has(tr, "update.start") =>
            /\ pool
            /\ Has(tr, "insert.ok")
            /\ calls[c].insertedId # None
            /\ Pos(tr, "insert.ok") < Pos(tr, "update.start")
       /\ (Admitted(c) /\ (~pool \/ Has(tr, "insert.fail"))) =>
            /\ ~Has(tr, "update.start")
            /\ \A i \in RowsOf(c) : webhooks[i].updates = 0

\* with a pool: call 1's INSERT failed and the call ended without an UPDATE,
\* on the success branch; call 2's did too, in the catch block
C24_Witness ==
  /\ pool
  /\ Done(1) /\ Done(2)
  /\ Has(calls[1].trace, "insert.fail") /\ Has(calls[2].trace, "insert.fail")
  /\ ~Failed(1) /\ Failed(2)
  /\ ~Has(calls[1].trace, "update.start") /\ ~Has(calls[2].trace, "update.start")
  /\ webhooks = <<>>

\* the sum of the values of a function with a finite domain
RECURSIVE SumFn(_)
SumFn(f) ==
  IF DOMAIN f = {} THEN 0
  ELSE LET k == CHOOSE k \in DOMAIN f : TRUE
       IN f[k] + SumFn([j \in DOMAIN f \ {k} |-> f[j]])

\* C25: the counts of httpStatusCounts add up to the counts of
\* latencyHistogram, and both to the number of calls that have gone through
\* the success branch's metrics step.  (No state lies between observeLatency
\* and the status count: the two statements run without an await between.)
C25_StatusCountsMatchHistogram ==
  /\ SumFn(metrics.httpStatusCounts) = SumSeq(metrics.latencyHistogram)
  /\ SumSeq(metrics.latencyHistogram) = Cardinality(Observed)

\* two calls counted under the same status, in different buckets
C25_Witness ==
  /\ Observed = {1, 2}
  /\ DOMAIN metrics.httpStatusCounts = {200}
  /\ metrics.httpStatusCounts[200] = 2
  /\ metrics.latencyHistogram[1] = 1
  /\ metrics.latencyHistogram[Len(latencyBuckets)] = 1

\* the requestIds a call's response carries, in its header and in its body
RequestIdsIn(res) ==
  (IF "X-Request-Id" \in DOMAIN res.headers THEN {res.headers["X-Request-Id"]} ELSE {})
  \cup (IF res.body.t = "object" /\ "requestId" \in DOMAIN res.body.f
        THEN {res.body.f["requestId"].s} ELSE {})

\* the response is the one the call's own endpoint and backend answer stand for
OwnResult(c) ==
  /\ calls[c].res.status = StatusFor(calls[c].endpoint, calls[c].reply)
  /\ Seen(c).body = BodyFor(calls[c].endpoint, calls[c].reply)

\* every row an UPDATE has written was inserted by the call that wrote it,
\* and holds that call's status
OwnRows ==
  \A i \in DOMAIN webhooks :
    webhooks[i].updates > 0 =>
      \E c \in Calls :
        /\ calls[c].insertedId = Some(i)
        /\ webhooks[i].request_id = calls[c].requestId
        /\ Has(calls[c].trace, "update.ok")
        /\ webhooks[i].http_code = IF Failed(c) THEN Some(500) ELSE calls[c].finalStatus

\* C22 as claimed: however the calls interleave, the response of each call
\* carries the call's own requestId and the result of its own invocation, and
\* each UPDATE writes the row the same call inserted.
C22_OwnResultAndRow ==
  /\ \A c \in Calls :
       Done(c) => /\ RequestIdsIn(calls[c].res) = {RequestIdOf(c)}
                  /\ OwnResult(c)
  /\ OwnRows

\* a call that has ended has sent one response and is on one of the two
\* branches; a call that has not ended has sent none
C21_OneOutcome ==
  \A c \in Calls :
    LET tr == calls[c].trace
    IN /\ ~(Failed(c) /\ Has(tr, "observe"))
       /\ Admitted(c) => tr[1] = "admit"
       /\ Done(c) => /\ calls[c].res.sent
                     /\ Count(tr, "respond") = 1
                     /\ tr[Len(tr)] = "respond"
                     /\ Failed(c) \/ Has(tr, "observe")
       /\ ~Done(c) => ~calls[c].res.sent /\ ~Has(tr, "respond")

\* a call that has ended does nothing more: its record and its rows stay as
\* they are, and when every call has ended nothing changes at all
C21_Quiet ==
  /\ \A c \in Calls :
       Done(c) => /\ calls'[c] = calls[c]
                  /\ \A i \in RowsOf(c) : webhooks'[i] = webhooks[i]
  /\ AllDone => vars' = vars

====
